---- MODULE Spec2Model ----
(***************************************************************************)
(* Model of cot_reflection_app_v1.py: the question pipeline                *)
(* (process_question and the submit wiring), the thinking-tag extraction,  *)
(* and the snapshot handlers (save, delete, load, export) over SnapshotDB. *)
(*                                                                         *)
(* Text is modelled as a sequence of tokens (a token is a literal piece of *)
(* a Python string); "" is <<>> and string concatenation is \o.            *)
(***************************************************************************)
EXTENDS Integers, Sequences, FiniteSets, TLC

VARIABLES
    \* ---- process_question / submit_btn.click
    pc,                \* position of the running process_question call
    args,              \* its six arguments
    document_content,  \* local of process_question
    initial_response,  \* local of process_question
    result,            \* the 7-tuple it returned
    raised,            \* whether the except branch (line 105) produced it
    error,             \* str(e) of the exception caught at line 105
    trace,             \* the steps of the current call, in order
    ui,                \* the values held by the Gradio components
    lastFailure,       \* the most recent 7-tuple returned by the except branch
    \* ---- thinking-tag extraction (lines 88-89) on arbitrary text
    xpc, text, actual_thinking,
    \* ---- snapshot handlers
    store,             \* SnapshotDB contents: id -> record
    next_id,           \* SnapshotDB identifier counter
    assigned,          \* identifiers in the order save_snapshot assigned them
    deletedTrue,       \* identifiers for which delete_snapshot reported a removal
    inflight,          \* per client: the store request started and not yet served
    last               \* the most recent handler call and what it returned

pvars == <<pc, args, document_content, initial_response, result, raised, error,
           trace, ui, lastFailure>>
xvars == <<xpc, text, actual_thinking>>
svars == <<store, next_id, assigned, deletedTrue, inflight, last>>
vars == <<pvars, xvars, svars>>

----------------------------------------------------------------------------
(* Values *)

\* Python's None. Every text is a sequence of tokens that never holds this one.
None == <<"<None object>">>
Empty == <<>>

\* str(x) inside an f-string: None is rendered as the word None.
Str(x) == IF x = None THEN <<"None">> ELSE x

\* Truthiness of an Optional[str].
Truthy(x) == x # None /\ x # Empty

----------------------------------------------------------------------------
(* The thinking-tag extraction of process_question, lines 88-89:           *)
(*   thinking_match = re.search(r'<thinking>(.*?)</thinking>', thinking,   *)
(*                              re.DOTALL)                                 *)
(*   actual_thinking = thinking_match.group(1).strip()                     *)
(*                     if thinking_match else thinking                     *)
(* The two tag literals are single tokens; every other token is one        *)
(* character.                                                              *)

OpenTag == "<thinking>"
CloseTag == "</thinking>"
Whitespace == {" ", "\n"}
Alphabet == {OpenTag, CloseTag, "a", " ", "\n"}

\* '.' without re.DOTALL: any character except a newline.
DotMatchesNoDotAll(tok) == tok # "\n"

\* '.' under re.DOTALL: any character, newline included.
DotMatches(tok) == TRUE

\* (.*?)</thinking> tried from position j: the lazy quantifier takes the
\* fewest characters, so the first close tag reachable over '.' characters
\* ends the match. 0: no match from here.
RECURSIVE LazyClose(_, _)
LazyClose(t, j) ==
    IF j > Len(t) THEN 0
    ELSE IF t[j] = CloseTag THEN j
    ELSE IF DotMatches(t[j]) THEN LazyClose(t, j + 1)
    ELSE 0

\* re.search: the pattern is tried at each start position, left to right;
\* the first position where it matches wins. <<0, 0>>: no match (None).
RECURSIVE SearchFrom(_, _)
SearchFrom(t, i) ==
    IF i > Len(t) THEN <<0, 0>>
    ELSE IF t[i] = OpenTag /\ LazyClose(t, i + 1) # 0
         THEN <<i, LazyClose(t, i + 1)>>
    ELSE SearchFrom(t, i + 1)

re_search(t) == SearchFrom(t, 1)

\* str.strip(): drop leading and trailing whitespace.
RECURSIVE LStrip(_)
LStrip(t) ==
    IF t # <<>> /\ Head(t) \in Whitespace THEN LStrip(Tail(t)) ELSE t

RECURSIVE RStrip(_)
RStrip(t) ==
    IF t # <<>> /\ t[Len(t)] \in Whitespace
    THEN RStrip(SubSeq(t, 1, Len(t) - 1)) ELSE t

strip(t) == RStrip(LStrip(t))

\* Lines 88-89.
ExtractThinking(thinking) ==
    LET m == re_search(thinking)
    IN  IF m # <<0, 0>> THEN strip(SubSeq(thinking, m[1] + 1, m[2] - 1))
        ELSE thinking

----------------------------------------------------------------------------
(* process_question (lines 31-106) and its wiring to the Submit button     *)
(* (lines 294-305).                                                        *)

\* Keys of AVAILABLE_MODELS (imported from cot_reflection_file).
AVAILABLE_MODELS == {"Gemini 2.0 Flash", "GPT-4o"}
ModelChoices == AVAILABLE_MODELS \cup {"no-such-model"}

\* default_system_prompt and default_cot_prompt, the initial values of the
\* two prompt textboxes (lines 226, 231), and a question.
SysText == <<"You are a helpful assistant.">>
CotText == <<"Think step by step.">>
Questions == {<<"What is 2+2?">>}

\* The uploaded file: None, or bytes of one of these kinds.
NoFile == "none"
Files == {NoFile, "pdf", "blank pdf", "docx", "corrupt"}

\* What a model backend can answer, and str(e) of what it can raise.
ErrPrefix == <<"An error occurred: ">>
Responses == {<<"4">>, ErrPrefix \o <<"quota exceeded">>}
BackendErrors == {<<"quota exceeded">>}
\* The first value cot_reflection returns.
ThinkingTexts ==
    {<<OpenTag, " ", "a", "\n", CloseTag, "a">>, <<"a", " ">>}
ReflectionText == <<"on reflection">>
OutputText == <<"The answer is 4.">>

\* get_model_response(model, prompt): a response, or an exception.
\* UnknownModel is raised for a model that is not registered.
get_model_response(model) ==
    IF model \notin AVAILABLE_MODELS
    THEN {[ok |-> FALSE, text |-> <<"Unknown model: ", model>>]}
    ELSE [ok : {TRUE}, text : Responses]
         \cup [ok : {FALSE}, text : BackendErrors]

\* cot_reflection(...): one backend round trip; returns
\* (thinking, reflection, output), or raises.
cot_reflection(model) ==
    IF model \notin AVAILABLE_MODELS
    THEN {[ok |-> FALSE, thinking |-> <<"Unknown model: ", model>>]}
    ELSE [ok : {TRUE}, thinking : ThinkingTexts]
         \cup [ok : {FALSE}, thinking : BackendErrors]

\* Line 69.
DocBlock(dc) ==
    IF Truthy(dc) THEN <<"Document Content:\n">> \o dc \o <<"\n\n">>
    ELSE Empty

\* Lines 73-75.
InitialPrompt(a, dc) ==
    Str(a.system_prompt) \o <<"\n\n">> \o DocBlock(dc)
    \o <<"Question: ">> \o a.user_prompt \o <<"\n\n">>
    \o <<"Provide a concise answer to this question without any explanation or reasoning.">>

\* Lines 96-98.
DirectPrompt(a, dc) ==
    Str(a.system_prompt) \o <<"\n\n">> \o DocBlock(dc)
    \o <<"Question: ">> \o a.user_prompt \o <<"\n\n">>
    \o <<"Analyze the question and provide a comprehensive answer.">>

NoResult == <<>>

\* A variant of the except branch that reports the error in the fifth value.
ExceptReturnInFinal(a, e) ==
    <<a.user_prompt, Empty, Empty, Empty, ErrPrefix \o e, None, None>>

\* Line 106: return user_prompt, f"An error occurred: {str(e)}", "", "", "",
\* None, None
ExceptReturn(a, e) ==
    <<a.user_prompt, ErrPrefix \o e, Empty, Empty, Empty, None, None>>

\* A variant of the direct return that reports the response in the fifth value.
DirectReturnInFinal(a, direct_response) ==
    <<a.user_prompt, Empty, Empty, Empty, direct_response, a.system_prompt, None>>

\* Line 103: return user_prompt, direct_response, "", "", "", system_prompt,
\* None
DirectReturn(a, direct_response) ==
    <<a.user_prompt, direct_response, Empty, Empty, Empty, a.system_prompt, None>>

\* Line 92.
CotReturn(a, init, thinking, reflection, output) ==
    <<a.user_prompt, init, ExtractThinking(thinking), reflection, output,
      a.system_prompt, a.cot_prompt>>

\* A variant of line 48 that lets every model through.
ModelRejectedNever(model) == FALSE

\* Line 48: if selected_model not in AVAILABLE_MODELS
ModelRejected(model) == model \notin AVAILABLE_MODELS

\* A variant of the branch at line 71 that skips the initial-response call.
AfterReadDocumentSkipInitial(use_default_cot) ==
    IF use_default_cot THEN "call_cot" ELSE "call_direct"

\* Line 71: if use_default_cot: ... else: ...
AfterReadDocument(use_default_cot) ==
    IF use_default_cot THEN "call_initial" ELSE "call_direct"

Step(name, ok, prompt, response) ==
    [step |-> name, ok |-> ok, prompt |-> prompt, response |-> response]

\* An exception reaches `except Exception as e` (line 105) and the function
\* returns.
Raise(e) ==
    /\ result' = ExceptReturn(args, e)
    /\ raised' = TRUE
    /\ error' = e
    /\ lastFailure' = ExceptReturn(args, e)
    /\ pc' = "done"

\* The Submit button: process_question is called with the component values
\* (lines 294-299).
Submit(file, q, model, use_cot) ==
    /\ UNCHANGED <<xvars, svars>>
    /\ pc = "idle"
    /\ pc' = "validate"
    /\ args' = [file |-> file, user_prompt |-> q,
                system_prompt |-> ui.system_prompt,
                cot_prompt |-> ui.cot_prompt,
                selected_model |-> model, use_default_cot |-> use_cot]
    /\ document_content' = None
    /\ initial_response' = None
    /\ result' = NoResult
    /\ raised' = FALSE
    /\ error' = Empty
    /\ trace' = <<>>
    /\ UNCHANGED <<ui, lastFailure>>

\* Lines 47-49.
ValidateModel ==
    /\ UNCHANGED <<xvars, svars>>
    /\ pc = "validate"
    /\ trace' = Append(trace, Step("validate", ~ModelRejected(args.selected_model), Empty, Empty))
    /\ IF ModelRejected(args.selected_model)
       THEN Raise(<<"Invalid model selected: ", args.selected_model>>)
       ELSE /\ pc' = "read_document"
            /\ UNCHANGED <<result, raised, error, lastFailure>>
    /\ UNCHANGED <<args, document_content, initial_response, ui>>

\* PyPDF2.PdfReader(file_obj) and the page text (lines 59-60).
PdfReads(file) == file \in {"pdf", "blank pdf"}
PdfText(file) == IF file = "pdf" THEN <<"page text">> ELSE Empty
\* Document(file_obj) and the paragraph text (lines 63-64).
DocxReads(file) == file = "docx"
DocxText == <<"paragraph text">>

\* Lines 52-66.
ReadDocument ==
    /\ UNCHANGED <<xvars, svars>>
    /\ pc = "read_document"
    /\ LET file == args.file
           ok == file = NoFile \/ PdfReads(file) \/ DocxReads(file)
       IN  /\ trace' = Append(trace, Step("read_document", ok, Empty, Empty))
           /\ IF ok
              THEN /\ document_content' =
                        IF file = NoFile THEN None
                        ELSE IF PdfReads(file) THEN PdfText(file)
                        ELSE DocxText
                   /\ pc' = AfterReadDocument(args.use_default_cot)
                   /\ UNCHANGED <<result, raised, error, lastFailure>>
              ELSE /\ Raise(<<"Error reading document. Please ensure it's a valid PDF or DOCX file.">>)
                   /\ UNCHANGED document_content
    /\ UNCHANGED <<args, initial_response, ui>>

\* Line 76.
CallInitial ==
    /\ UNCHANGED <<xvars, svars>>
    /\ pc = "call_initial"
    /\ \E r \in get_model_response(args.selected_model) :
          /\ trace' = Append(trace, Step("initial", r.ok,
                                         InitialPrompt(args, document_content), r.text))
          /\ IF r.ok
             THEN /\ initial_response' = r.text
                  /\ pc' = "call_cot"
                  /\ UNCHANGED <<result, raised, error, lastFailure>>
             ELSE /\ Raise(r.text)
                  /\ UNCHANGED initial_response
    /\ UNCHANGED <<args, document_content, ui>>

\* Lines 79-92.
CallCot ==
    /\ UNCHANGED <<xvars, svars>>
    /\ pc = "call_cot"
    /\ \E r \in cot_reflection(args.selected_model) :
          /\ trace' = Append(trace, Step("cot", r.ok, args.cot_prompt, r.thinking))
          /\ IF r.ok
             THEN /\ result' = CotReturn(args, initial_response, r.thinking,
                                         ReflectionText, OutputText)
                  /\ pc' = "done"
                  /\ UNCHANGED <<raised, error, lastFailure>>
             ELSE Raise(r.thinking)
    /\ UNCHANGED <<args, document_content, initial_response, ui>>

\* Lines 96-103.
CallDirect ==
    /\ UNCHANGED <<xvars, svars>>
    /\ pc = "call_direct"
    /\ \E r \in get_model_response(args.selected_model) :
          /\ trace' = Append(trace, Step("direct", r.ok,
                                         DirectPrompt(args, document_content), r.text))
          /\ IF r.ok
             THEN /\ result' = DirectReturn(args, r.text)
                  /\ pc' = "done"
                  /\ UNCHANGED <<raised, error, lastFailure>>
             ELSE Raise(r.text)
    /\ UNCHANGED <<args, document_content, initial_response, ui>>

\* The returned tuple is written to the output components (lines 300-304):
\* the two prompt textboxes are among them.
Deliver ==
    /\ UNCHANGED <<xvars, svars>>
    /\ pc = "done"
    /\ pc' = "idle"
    /\ ui' = [user_prompt_output |-> result[1],
              initial_response_output |-> result[2],
              thinking_output |-> result[3],
              reflection_output |-> result[4],
              final_output |-> result[5],
              system_prompt |-> result[6],
              cot_prompt |-> result[7]]
    /\ UNCHANGED <<args, document_content, initial_response, result, raised,
                   error, trace, lastFailure>>

\* The user types into the prompt textboxes (lines 223-232).
EditPrompts(sp, cp) ==
    /\ UNCHANGED <<xvars, svars>>
    /\ pc = "idle"
    /\ ui' = [ui EXCEPT !.system_prompt = sp, !.cot_prompt = cp]
    /\ <<ui.system_prompt, ui.cot_prompt>> # <<sp, cp>>
    /\ UNCHANGED <<pc, args, document_content, initial_response, result,
                   raised, error, trace, lastFailure>>

NoArgs == [file |-> NoFile, user_prompt |-> Empty, system_prompt |-> None,
           cot_prompt |-> None, selected_model |-> "Gemini 2.0 Flash",
           use_default_cot |-> FALSE]

PInit ==
    /\ pc = "idle"
    /\ args = NoArgs
    /\ document_content = None
    /\ initial_response = None
    /\ result = NoResult
    /\ raised = FALSE
    /\ error = Empty
    /\ trace = <<>>
    /\ lastFailure = NoResult
    /\ ui = [user_prompt_output |-> Empty, initial_response_output |-> Empty,
             thinking_output |-> Empty, reflection_output |-> Empty,
             final_output |-> Empty,
             system_prompt |-> SysText, cot_prompt |-> CotText]

PNext ==
    \/ \E file \in Files, q \in Questions, model \in ModelChoices, use_cot \in BOOLEAN :
          Submit(file, q, model, use_cot)
    \/ ValidateModel
    \/ ReadDocument
    \/ CallInitial
    \/ CallCot
    \/ CallDirect
    \/ Deliver
    \/ \E sp \in {SysText}, cp \in {CotText} : EditPrompts(sp, cp)

----------------------------------------------------------------------------
(* The extraction applied to arbitrary text.                               *)

MaxTextLen == 4
Texts == UNION {[1..n -> Alphabet] : n \in 0..MaxTextLen}

XInit ==
    /\ xpc = "ready"
    /\ text \in Texts
    /\ actual_thinking = Empty

\* Lines 88-89 applied to `text`.
Extract ==
    /\ UNCHANGED <<pvars, svars>>
    /\ xpc = "ready"
    /\ xpc' = "done"
    /\ actual_thinking' = ExtractThinking(text)
    /\ UNCHANGED text

XIdle ==
    /\ xpc = "off"
    /\ text = Empty
    /\ actual_thinking = Empty

----------------------------------------------------------------------------
(* SnapshotDB (db_utils, line 15): the snapshot store.                     *)

MaxSaves == 3
NumClients == 2
Clients == 1..NumClients

\* What the Save button passes (lines 309-320), as left in the components
\* by a direct run and by a reasoned run.
DirectRunData ==
    [snapshot_name |-> <<"first">>, user_prompt |-> <<"What is 2+2?">>,
     system_prompt |-> SysText, model_name |-> <<"Gemini 2.0 Flash">>,
     cot_prompt |-> None, initial_response |-> <<"4">>,
     thinking |-> Empty, reflection |-> Empty, final_response |-> Empty,
     tags |-> <<"math">>]
ReasonedRunData ==
    [snapshot_name |-> <<"second">>, user_prompt |-> <<"What is 2+2?">>,
     system_prompt |-> SysText, model_name |-> <<"GPT-4o">>,
     cot_prompt |-> CotText, initial_response |-> <<"4">>,
     thinking |-> <<"a">>, reflection |-> ReflectionText,
     final_response |-> OutputText, tags |-> Empty]
SaveData == {DirectRunData, ReasonedRunData}

MaxOf(S) == CHOOSE m \in S : \A x \in S : x <= m

\* A store that hands out one more than the largest identifier it holds.
NewIdMaxPlusOne(st, counter) ==
    IF DOMAIN st = {} THEN 1 ELSE MaxOf(DOMAIN st) + 1

\* save: the next identifier, increasing and never reused.
NewId(st, counter) == counter

\* save: the persisted record; created_at is the store's logical time.
NewRecord(id, data) ==
    [id |-> id, created_at |-> id] @@ data

\* delete that reports the removal but keeps the record.
db_delete_keeps(st, id) == st

\* delete: the store without the record.
db_delete(st, id) == [k \in DOMAIN st \ {id} |-> st[k]]

\* get_by_id: <<record>>, or <<>> for not found.
db_get_snapshot_by_id(st, id) ==
    IF id \in DOMAIN st THEN <<st[id]>> ELSE <<>>

\* list with an empty search term: every snapshot, newest first.
RECURSIVE NewestFirst(_, _)
NewestFirst(st, ids) ==
    IF ids = {} THEN <<>>
    ELSE LET top == CHOOSE i \in ids : \A j \in ids : st[j].created_at <= st[i].created_at
         IN  <<st[top]>> \o NewestFirst(st, ids \ {top})

\* Lines 151-157 with search_term = "".
update_snapshots_table(st) ==
    LET snapshots == NewestFirst(st, DOMAIN st)
    IN  [k \in 1..Len(snapshots) |->
            <<snapshots[k].id, snapshots[k].snapshot_name, snapshots[k].created_at,
              snapshots[k].model_name, snapshots[k].user_prompt, snapshots[k].tags>>]

----------------------------------------------------------------------------
(* The value of the Snapshot ID input as a handler receives it.            *)

IdNone == [kind |-> "none", n |-> 0, s |-> ""]
IdNum(n) == [kind |-> "num", n |-> n, s |-> ""]
IdStr(s) == [kind |-> "str", n |-> 0, s |-> s]

\* `not snapshot_id`
Falsy(x) ==
    \/ x.kind = "none"
    \/ x.kind = "num" /\ x.n = 0
    \/ x.kind = "str" /\ x.s = ""

\* int(snapshot_id): <<n>>, or <<>> when it raises ValueError.
int(x) ==
    IF x.kind = "num" THEN <<x.n>>
    ELSE IF x.s = "1" THEN <<1>>
    ELSE IF x.s = "2" THEN <<2>>
    ELSE <<>>

IdInputs ==
    {IdNone} \cup {IdNum(n) : n \in 0..(MaxSaves + 1)}
    \cup {IdStr(s) : s \in {"", "abc", "2"}}

----------------------------------------------------------------------------
(* load_snapshot_by_id (lines 108-149).                                    *)

Nones9 == <<None, None, None, None, None, None, None, None, None>>
StorageErrorText == <<"database is locked">>

\* The nine component values with thinking and reflection exchanged.
LoadFieldsSwapped(d) ==
    <<d.snapshot_name, d.user_prompt, d.system_prompt, d.model_name,
      d.cot_prompt, d.initial_response, d.reflection, d.thinking,
      d.final_response>>

\* Lines 137-145: the nine component values of a found snapshot.
LoadFields(d) ==
    <<d.snapshot_name, d.user_prompt, d.system_prompt, d.model_name,
      d.cot_prompt, d.initial_response, d.thinking, d.reflection,
      d.final_response>>

\* Lines 132-147, given what db.get_snapshot_by_id returned.
\* (The success message of line 146 starts with a check mark, left out here.)
LoadFound(snapshot_data) ==
    IF snapshot_data = <<>>
    THEN Nones9 \o <<<<"Snapshot not found">>>>
    ELSE LoadFields(snapshot_data[1]) \o <<<<"Snapshot loaded successfully">>>>

\* load_snapshot_by_id(snapshot_id), `fails` telling whether the store raises.
load_snapshot_by_id(x, fails, st) ==
    IF Falsy(x)
    THEN Nones9 \o <<<<"Please enter a snapshot ID to load">>>>
    ELSE IF int(x) = <<>>
    THEN Nones9 \o <<<<"Invalid Snapshot ID. Please enter a numeric ID.">>>>
    ELSE IF fails
    THEN Nones9 \o <<<<"Error loading snapshot: ">> \o StorageErrorText>>
    ELSE LoadFound(db_get_snapshot_by_id(st, int(x)[1]))

----------------------------------------------------------------------------
(* json.dumps / json.loads on snapshot records, and export (lines 159-186, *)
(* 351-369). A JSON text is the token sequence                             *)
(*   { key : value , key : value , ... }                                   *)
(* with a string value written between two quote tokens, None as null and  *)
(* an integer as its decimal numeral.                                      *)

Keys == <<"id", "snapshot_name", "created_at", "model_name", "user_prompt",
          "system_prompt", "cot_prompt", "initial_response", "thinking",
          "reflection", "final_response", "tags">>
IntKeys == {"id", "created_at"}
Quote == "\""

EncodeValue(k, v) ==
    IF k \in IntKeys THEN <<ToString(v)>>
    ELSE IF v = None THEN <<"null">>
    ELSE <<Quote>> \o v \o <<Quote>>

RECURSIVE EncodeFields(_, _)
EncodeFields(rec, i) ==
    IF i > Len(Keys) THEN <<>>
    ELSE <<Keys[i], ":">> \o EncodeValue(Keys[i], rec[Keys[i]])
         \o (IF i < Len(Keys) THEN <<",">> ELSE <<>>)
         \o EncodeFields(rec, i + 1)

json_dumps(rec) == <<"{">> \o EncodeFields(rec, 1) \o <<"}">>

RECURSIVE ClosingQuote(_, _)
ClosingQuote(t, j) ==
    IF j > Len(t) THEN 0 ELSE IF t[j] = Quote THEN j ELSE ClosingQuote(t, j + 1)

\* A value starting at t[i]: [ok, v, next].
ParseValue(t, i) ==
    IF i > Len(t) THEN [ok |-> FALSE, v |-> None, next |-> i]
    ELSE IF t[i] = "null" THEN [ok |-> TRUE, v |-> None, next |-> i + 1]
    ELSE IF t[i] = Quote
    THEN LET j == ClosingQuote(t, i + 1)
         IN  IF j = 0 THEN [ok |-> FALSE, v |-> None, next |-> i]
             ELSE [ok |-> TRUE, v |-> SubSeq(t, i + 1, j - 1), next |-> j + 1]
    ELSE IF \E n \in 0..(MaxSaves + 2) : ToString(n) = t[i]
    THEN [ok |-> TRUE, v |-> CHOOSE n \in 0..(MaxSaves + 2) : ToString(n) = t[i],
          next |-> i + 1]
    ELSE [ok |-> FALSE, v |-> None, next |-> i]

\* The members of an object from t[i] on: <<object>>, or <<>> for a
\* JSONDecodeError.
RECURSIVE ParseMembers(_, _, _)
ParseMembers(t, i, acc) ==
    IF i + 1 > Len(t) \/ t[i + 1] # ":" THEN <<>>
    ELSE LET pv == ParseValue(t, i + 2)
             obj == (t[i] :> pv.v) @@ acc
         IN  IF ~pv.ok \/ pv.next > Len(t) THEN <<>>
             ELSE IF t[pv.next] = "}"
                  THEN IF pv.next = Len(t) THEN <<obj>> ELSE <<>>
             ELSE IF t[pv.next] = "," THEN ParseMembers(t, pv.next + 1, obj)
             ELSE <<>>

\* json.loads(text): <<value>>, or <<>> when it raises JSONDecodeError.
json_loads(t) ==
    IF t = <<>> \/ t[1] # "{" THEN <<>> ELSE ParseMembers(t, 2, <<>>)

JSONDecodeErrorText == <<"Expecting value: line 1 column 1 (char 0)">>

\* export_snapshot(snapshot_id) (lines 169-186): the text it returns.
export_snapshot(x, fails, st) ==
    IF Falsy(x) THEN <<"Please enter a snapshot ID to export">>
    ELSE IF int(x) = <<>>
    THEN <<"Error exporting snapshot: ", "invalid literal for int()">>
    ELSE IF fails THEN <<"Error exporting snapshot: ">> \o StorageErrorText
    ELSE LET snapshot_data == db_get_snapshot_by_id(st, int(x)[1])
         IN  IF snapshot_data = <<>> THEN <<"Snapshot not found">>
             ELSE json_dumps(snapshot_data[1])

ExportOut(visible, value, status) ==
    [visible |-> visible, value |-> value, status |-> status]

\* handle_export(snapshot_id) (lines 361-369): the update of the JSON
\* component and the status message.
handle_export(x, fails, st) ==
    IF Falsy(x)
    THEN ExportOut(FALSE, <<>>, <<"Please enter a snapshot ID to export">>)
    ELSE LET parsed_json == json_loads(export_snapshot(x, fails, st))
         IN  IF parsed_json # <<>>
             THEN ExportOut(TRUE, parsed_json, <<"Export successful">>)
             ELSE ExportOut(FALSE, <<>>, <<"Export failed: ">> \o JSONDecodeErrorText)

----------------------------------------------------------------------------
(* The snapshot handlers. Handlers of several clients run concurrently: a  *)
(* Save click starts a request (BeginSave) that the store serves later, in *)
(* one step (ServeSave), with other handlers in between. Delete, Load and  *)
(* Export make one call of the store each.                                 *)

NoData == [snapshot_name |-> Empty, user_prompt |-> Empty,
           system_prompt |-> Empty, model_name |-> Empty,
           cot_prompt |-> Empty, initial_response |-> Empty,
           thinking |-> Empty, reflection |-> Empty,
           final_response |-> Empty, tags |-> Empty]
Idle == [op |-> "idle", data |-> NoData]

Last(op, x, fails, rec, out) ==
    [op |-> op, x |-> x, fails |-> fails, rec |-> rec, out |-> out]
NoOp == Last("none", IdNone, FALSE, <<>>, <<>>)

SavesInFlight == Cardinality({c \in Clients : inflight[c].op = "save"})

\* save_btn.click is invoked with the component values (lines 307-328).
BeginSave(c, data) ==
    /\ UNCHANGED <<pvars, xvars>>
    /\ inflight[c] = Idle
    /\ next_id + SavesInFlight <= MaxSaves
    /\ inflight' = [inflight EXCEPT ![c] = [op |-> "save", data |-> data]]
    /\ UNCHANGED <<store, next_id, assigned, deletedTrue, last>>

\* db.save_snapshot({...}) followed by update_snapshots_table() (lines 309-321).
ServeSave(c) ==
    /\ UNCHANGED <<pvars, xvars>>
    /\ inflight[c].op = "save"
    /\ LET id == NewId(store, next_id)
           st == (id :> NewRecord(id, inflight[c].data)) @@ store
       IN  /\ store' = st
           /\ next_id' = next_id + 1
           /\ assigned' = Append(assigned, id)
           /\ last' = Last("save", IdNum(id), FALSE, <<>>,
                           <<id, update_snapshots_table(st)>>)
    /\ inflight' = [inflight EXCEPT ![c] = Idle]
    /\ UNCHANGED deletedTrue

\* delete_btn.click with a number in the Snapshot ID input (line 333):
\* db.delete_snapshot(int(snapshot_id)).
Delete(n) ==
    /\ UNCHANGED <<pvars, xvars>>
    /\ LET found == n \in DOMAIN store
       IN  /\ store' = IF found THEN db_delete(store, n) ELSE store
           /\ deletedTrue' = IF found THEN deletedTrue \cup {n} ELSE deletedTrue
           /\ last' = Last("delete", IdNum(n), FALSE,
                           db_get_snapshot_by_id(store, n), <<found>>)
    /\ UNCHANGED <<next_id, assigned, inflight>>

\* delete_btn.click with an empty Snapshot ID input (line 333, else branch).
DeleteNoId ==
    /\ UNCHANGED <<pvars, xvars>>
    /\ last' = Last("delete", IdNone, FALSE, <<>>,
                    <<<<"Please enter a snapshot ID">>, update_snapshots_table(store)>>)
    /\ UNCHANGED <<store, next_id, assigned, deletedTrue, inflight>>

\* The store can raise only when it is called.
ReachesStore(x) == ~Falsy(x) /\ int(x) # <<>>

\* load_btn.click (lines 381-396).
Load(x, fails) ==
    /\ UNCHANGED <<pvars, xvars>>
    /\ fails => ReachesStore(x)
    /\ last' = Last("load", x, fails,
                    IF int(x) = <<>> THEN <<>>
                    ELSE db_get_snapshot_by_id(store, int(x)[1]),
                    load_snapshot_by_id(x, fails, store))
    /\ UNCHANGED <<store, next_id, assigned, deletedTrue, inflight>>

\* export_btn.click (lines 371-378).
Export(x, fails) ==
    /\ UNCHANGED <<pvars, xvars>>
    /\ fails => ReachesStore(x)
    /\ last' = Last("export", x, fails,
                    IF int(x) = <<>> THEN <<>>
                    ELSE db_get_snapshot_by_id(store, int(x)[1]),
                    handle_export(x, fails, store))
    /\ UNCHANGED <<store, next_id, assigned, deletedTrue, inflight>>

SInit ==
    /\ store = <<>>
    /\ next_id = 1
    /\ assigned = <<>>
    /\ deletedTrue = {}
    /\ inflight = [c \in Clients |-> Idle]
    /\ last = NoOp

SNext ==
    \/ \E c \in Clients, data \in SaveData : BeginSave(c, data)
    \/ \E c \in Clients : ServeSave(c)
    \/ \E n \in 1..MaxSaves : Delete(n)
    \/ DeleteNoId

\* One client saving and deleting, and the two read handlers.
RNext ==
    \/ \E data \in SaveData : BeginSave(1, data)
    \/ ServeSave(1)
    \/ \E n \in 1..MaxSaves : Delete(n)
    \/ \E x \in IdInputs, fails \in BOOLEAN : Load(x, fails)
    \/ \E x \in IdInputs, fails \in BOOLEAN : Export(x, fails)

----------------------------------------------------------------------------
(* Specifications *)

Init == PInit /\ XIdle /\ SInit
InitExtract == PInit /\ XInit /\ SInit

\* The question pipeline behind the Submit button.
Spec == Init /\ [][PNext]_vars

\* The thinking-tag extraction on every text up to MaxTextLen tokens.
SpecExtract == InitExtract /\ [][Extract]_vars

\* Concurrent saves and deletes on the snapshot store.
SpecStore == Init /\ [][SNext]_vars

\* Load and Export on the stores that saves and deletes produce.
SpecRead == Init /\ [][RNext]_vars

----------------------------------------------------------------------------
(* Properties of process_question (specification Spec)                     *)

BackendSteps == {"initial", "cot", "direct"}
StepNames == [i \in 1..Len(trace) |-> trace[i].step]
BackendCalls == SelectSeq(trace, LAMBDA e : e.step \in BackendSteps)
LastStep == trace[Len(trace)]
LastStepFailed == trace # <<>> /\ ~LastStep.ok
Returned == Len(result) = 7
DirectSuccess == pc = "done" /\ ~raised /\ ~args.use_default_cot
IsPrefix(a, b) == Len(a) <= Len(b) /\ a = SubSeq(b, 1, Len(a))

\* C1, as stated: a successful direct-mode run returns empty thinking and
\* reflection, the backend response verbatim as the fifth value (Final
\* Output), and no cot_prompt.
C1_DirectResponseInFinalOutput ==
    DirectSuccess =>
        /\ result[3] = Empty
        /\ result[4] = Empty
        /\ result[5] = LastStep.response
        /\ result[7] = None

\* C1, amended: a successful direct-mode run made one backend call and
\* returns empty thinking and reflection, the backend response verbatim as
\* the second value (Initial Response), an empty fifth value (Final Output),
\* and no cot_prompt.
C1_DirectResponseInInitialResponse ==
    DirectSuccess =>
        /\ Len(BackendCalls) = 1
        /\ LastStep.step = "direct"
        /\ result[2] = LastStep.response
        /\ result[3] = Empty
        /\ result[4] = Empty
        /\ result[5] = Empty
        /\ result[7] = None

C1_Witness ==
    /\ DirectSuccess
    /\ args.file = "pdf"
    /\ result[2] = <<"4">>

\* C2, as stated: when validation, document reading or a backend call
\* raises, the call returns a result with the error description as the
\* fifth value (final answer) and empty initial answer, thinking and
\* reflection.
C2_ErrorInFinalAnswer ==
    LastStepFailed =>
        /\ raised
        /\ Returned
        /\ result[5] = ErrPrefix \o error
        /\ result[2] = Empty
        /\ result[3] = Empty
        /\ result[4] = Empty

\* C2, amended: when validation, document reading or a backend call raises,
\* the call returns (the exception is not propagated) a complete 7-tuple
\* with the error description "An error occurred: <message>" as the second
\* value (initial answer) and empty thinking, reflection and final answer.
C2_ErrorInInitialResponse ==
    /\ LastStepFailed =>
        /\ raised
        /\ pc \in {"done", "idle"}
        /\ Returned
        /\ error # Empty
        /\ result[1] = args.user_prompt
        /\ result[2] = ErrPrefix \o error
        /\ result[3] = Empty
        /\ result[4] = Empty
        /\ result[5] = Empty
    /\ raised => LastStepFailed

C2_Witness ==
    /\ pc = "done"
    /\ raised
    /\ LastStep.step = "cot"
    /\ Len(trace) = 4

\* C3: a run with a model that is not in AVAILABLE_MODELS returns a failure
\* result, and at no point of the run is get_model_response or
\* cot_reflection called, in either mode, with or without a document.
C3_UnregisteredModelNeverCalls ==
    (trace # <<>> /\ args.selected_model \notin AVAILABLE_MODELS) =>
        /\ pc \in {"done", "idle"}
        /\ raised
        /\ Returned
        /\ BackendCalls = <<>>
        /\ StepNames = <<"validate">>

C3_Witness ==
    /\ pc = "done"
    /\ args.selected_model \notin AVAILABLE_MODELS
    /\ args.file = "docx"
    /\ args.use_default_cot

\* C4: a failed run can be told apart from a successful one without reading
\* text: no successful run returns the very tuple a failed run returned.
C4_FailureDistinguishable ==
    (pc = "done" /\ ~raised) => result # lastFailure

\* C8: the steps of one run are, in order, model validation, document
\* reading and then the backend calls; a successful reasoned run makes the
\* initial call and then the chain-of-thought call, a successful direct run
\* one call; a failing step is the last step of its run.
C8_StepOrder ==
    /\ IsPrefix(StepNames,
                IF args.use_default_cot
                THEN <<"validate", "read_document", "initial", "cot">>
                ELSE <<"validate", "read_document", "direct">>)
    /\ \A i \in 1..(Len(trace) - 1) : trace[i].ok
    /\ raised <=> LastStepFailed
    /\ (pc = "done" /\ ~raised /\ args.use_default_cot) =>
          /\ Len(BackendCalls) = 2
          /\ BackendCalls[1].step = "initial" /\ BackendCalls[1].ok
          /\ BackendCalls[2].step = "cot" /\ BackendCalls[2].ok
          /\ result[2] = BackendCalls[1].response
    /\ (pc = "done" /\ ~raised /\ ~args.use_default_cot) =>
          Len(BackendCalls) = 1
    /\ (pc \in {"call_initial", "call_cot", "call_direct"}) =>
          /\ trace[1].step = "validate" /\ trace[1].ok
          /\ trace[2].step = "read_document" /\ trace[2].ok

C8_Witness ==
    /\ pc = "done"
    /\ ~raised
    /\ args.use_default_cot
    /\ args.file = "docx"
    /\ Len(BackendCalls) = 2

----------------------------------------------------------------------------
(* Property of the extraction (specification SpecExtract)                  *)

Positions(t) == 1..Len(t)
\* A well-formed span: an open tag with a close tag somewhere after it.
OpensSpan(t, i) ==
    t[i] = OpenTag /\ \E j \in Positions(t) : j > i /\ t[j] = CloseTag
HasSpan(t) == \E i \in Positions(t) : OpensSpan(t, i)
FirstOpen(t) ==
    CHOOSE i \in Positions(t) :
        OpensSpan(t, i) /\ \A k \in Positions(t) : OpensSpan(t, k) => i <= k
FirstCloseAfter(t, i) ==
    CHOOSE j \in Positions(t) :
        /\ j > i /\ t[j] = CloseTag
        /\ \A k \in Positions(t) : (k > i /\ t[k] = CloseTag) => j <= k
InnerOfFirstSpan(t) ==
    SubSeq(t, FirstOpen(t) + 1, FirstCloseAfter(t, FirstOpen(t)) - 1)
Trimmed(t) ==
    LET solid == {k \in Positions(t) : t[k] \notin Whitespace}
    IN  IF solid = {} THEN <<>>
        ELSE SubSeq(t, CHOOSE a \in solid : \A k \in solid : a <= k,
                       CHOOSE b \in solid : \A k \in solid : k <= b)

\* C5: if the text holds a <thinking>...</thinking> span, the thinking
\* value is the inner content of the first such span (shortest, newlines
\* allowed) with the surrounding whitespace trimmed; otherwise it is the
\* text unchanged.
C5_ThinkingExtraction ==
    xpc = "done" =>
        actual_thinking = IF HasSpan(text) THEN Trimmed(InnerOfFirstSpan(text))
                          ELSE text

C5_Witness ==
    /\ xpc = "done"
    /\ text = <<OpenTag, "\n", "a", CloseTag>>
    /\ actual_thinking = <<"a">>

----------------------------------------------------------------------------
(* Properties of the snapshot store (specification SpecStore)              *)

AssignedIds == {assigned[i] : i \in 1..Len(assigned)}

\* C6: every save gets an identifier greater than every identifier assigned
\* before it, whatever saves and deletes interleave: none is reused after a
\* delete and no two saves get the same one.
C6_IdsStrictlyIncrease ==
    /\ \A i, j \in 1..Len(assigned) : i < j => assigned[i] < assigned[j]
    /\ \A id \in DOMAIN store : store[id].id = id /\ id \in AssignedIds
    /\ deletedTrue \cap DOMAIN store = {}

C6_Witness ==
    /\ last.op = "save"
    /\ Len(assigned) >= 2
    /\ assigned[Len(assigned) - 1] \in deletedTrue
    /\ \E c \in Clients : inflight[c].op = "save"

NotFoundLoad == Nones9 \o <<<<"Snapshot not found">>>>

\* C7: a delete returns true exactly when the id is stored, leaves the id
\* not found by get_by_id (and by the Load handler), and returns false for
\* an id it has removed before or that was never stored.
C7_DeleteThenNotFound ==
    [][\A n \in 1..MaxSaves :
          Delete(n) =>
             /\ last'.out[1] <=> (n \in DOMAIN store)
             /\ n \in deletedTrue => ~last'.out[1]
             /\ n \notin AssignedIds => ~last'.out[1]
             /\ db_get_snapshot_by_id(store', n) = <<>>
             /\ load_snapshot_by_id(IdNum(n), FALSE, store') = NotFoundLoad]_vars

C7_Witness ==
    /\ last.op = "delete"
    /\ last.x.n \in deletedTrue
    /\ last.out = <<FALSE>>

----------------------------------------------------------------------------
(* Properties of Load and Export (specification SpecRead)                  *)

\* C9: exporting an id that is not stored reports "Snapshot not found",
\* and exporting a stored id yields the complete record with the status
\* "Export successful".
C9_ExportNotFoundIsReported ==
    (last.op = "export" /\ last.x.kind = "num" /\ last.x.n >= 1 /\ ~last.fails) =>
        IF last.rec = <<>>
        THEN last.out.status = <<"Snapshot not found">>
        ELSE last.out = ExportOut(TRUE, last.rec, <<"Export successful">>)

\* The part of C9 about stored ids.
ExportOfStoredId ==
    (last.op = "export" /\ last.x.kind = "num" /\ ~last.fails /\ last.rec # <<>>) =>
        last.out = ExportOut(TRUE, last.rec, <<"Export successful">>)

IsEmptyId(x) == x.kind = "none" \/ (x.kind = "num" /\ x.n = 0) \/ (x.kind = "str" /\ x.s = "")
IsNumericId(x) == x.kind = "num" \/ x.s \in {"1", "2"}
NumberOf(x) == IF x.kind = "num" THEN x.n ELSE IF x.s = "1" THEN 1 ELSE 2

C10_Outputs ==
    last.op = "load" =>
        LET out == last.out
            x == last.x
        IN  /\ Len(out) = 10
            /\ IF IsEmptyId(x)
               THEN out = Nones9 \o <<<<"Please enter a snapshot ID to load">>>>
               ELSE IF ~IsNumericId(x)
               THEN out = Nones9 \o <<<<"Invalid Snapshot ID. Please enter a numeric ID.">>>>
               ELSE IF last.fails
               THEN SubSeq(out, 1, 9) = Nones9 /\ out[10][1] = "Error loading snapshot: "
               ELSE IF NumberOf(x) \notin DOMAIN store
               THEN out = NotFoundLoad
               ELSE LET r == store[NumberOf(x)]
                    IN  out = <<r.snapshot_name, r.user_prompt, r.system_prompt,
                                r.model_name, r.cot_prompt, r.initial_response,
                                r.thinking, r.reflection, r.final_response,
                                <<"Snapshot loaded successfully">>>>

\* C10: load_snapshot_by_id always returns 10 values: nine None and a
\* message naming the cause for an empty, non-numeric or not-stored id or a
\* store error; the record's nine fields in order and the success message
\* for a stored id. A load leaves the store as it was.
C10_LoadReturnsTenValues ==
    /\ []C10_Outputs
    /\ [][(\E x \in IdInputs, fails \in BOOLEAN : Load(x, fails)) =>
             store' = store]_vars

C10_Witness ==
    /\ last.op = "load"
    /\ last.x = IdStr("2")
    /\ last.out[10] = <<"Snapshot loaded successfully">>
    /\ last.out[7] # last.out[8]

====
